---- MODULE Spec2Model ----
(***************************************************************************)
(* A model of MailStore (src/src/mail_store.py): the JSON-backed message   *)
(* and contact store, its search, its CSV import/export of contacts and    *)
(* its IMAP synchronisation.                                               *)
(*                                                                         *)
(* Strings are sequences of one-character strings, so that strip, lower,   *)
(* split, join and substring search are computed as Python computes them.  *)
(* An Optional value is a sequence of length at most one: None is <<>>,    *)
(* a present value v is <<v>>.                                             *)
(***************************************************************************)
EXTENDS Integers, Sequences, FiniteSets, TLC

VARIABLES
    data,      \* MailStore.data: [messages |-> list of dicts, contacts |-> list of dicts]
    disk,      \* the JSON document in the file at data_path
    csv,       \* the text of the file at the contacts path, None when it does not exist
    call,      \* the last call made, with its arguments
    result     \* what that call returned (or that it raised)

vars == <<data, disk, csv, call, result>>

\* ------------------------------------------------------------------ bounds

\* The store holds at most MaxMsgs messages and MaxContacts contacts.
MaxMsgs == 2
MaxContacts == 2
\* sync_imap is called with a limit of 0, 1 or MaxLimit.
MaxLimit == 2

\* ----------------------------------------------------------------- strings

None == <<>>
Some(v) == <<v>>

\* Python's truth value of an Optional[str] or Optional[list]: None and the
\* empty string / list are false.
Truthy(opt) == opt # None /\ opt[1] # <<>>

\* The whitespace str.strip() removes (of the characters of the model).
Whitespace == {" ", "\t", "\n"}

\* The characters of the model in code-point order; Ord(c) is c's rank.
Alphabet == <<"\t", "\n", " ", ",", "-", "0", "1", "2", "7", "@", "A", "B",
              "I", "S", "a", "b", "c", "d", "e", "f", "g", "h", "i", "m", "n",
              "o", "p", "r", "s", "t", "v", "x", "z">>
Ord(c) == CHOOSE i \in 1..Len(Alphabet) : Alphabet[i] = c

RECURSIVE lstrip(_)
lstrip(s) ==
    IF s # <<>> /\ Head(s) \in Whitespace THEN lstrip(Tail(s)) ELSE s

RECURSIVE rstrip(_)
rstrip(s) ==
    IF s # <<>> /\ s[Len(s)] \in Whitespace
    THEN rstrip(SubSeq(s, 1, Len(s) - 1))
    ELSE s

\* str.strip()
strip(s) == rstrip(lstrip(s))

\* str.lower() on one character (ASCII), and on a string
Uppercase ==
    <<"A", "B", "C", "D", "E", "F", "G", "H", "I", "J", "K", "L", "M",
      "N", "O", "P", "Q", "R", "S", "T", "U", "V", "W", "X", "Y", "Z">>
Lowercase ==
    <<"a", "b", "c", "d", "e", "f", "g", "h", "i", "j", "k", "l", "m",
      "n", "o", "p", "q", "r", "s", "t", "u", "v", "w", "x", "y", "z">>
lower_char(c) ==
    IF \E i \in 1..Len(Uppercase) : Uppercase[i] = c
    THEN Lowercase[CHOOSE i \in 1..Len(Uppercase) : Uppercase[i] = c]
    ELSE c
lower(s) == [i \in 1..Len(s) |-> lower_char(s[i])]

\* Python's `needle in hay` on strings
contains(needle, hay) ==
    \E i \in 0..(Len(hay) - Len(needle)) :
        SubSeq(hay, i + 1, i + Len(needle)) = needle

\* sep.join(parts)
RECURSIVE join(_, _)
join(sep, parts) ==
    IF parts = <<>> THEN <<>>
    ELSE IF Len(parts) = 1 THEN parts[1]
    ELSE parts[1] \o sep \o join(sep, Tail(parts))

\* Python's a < b on strings: lexicographic by code point
RECURSIVE str_less(_, _)
str_less(a, b) ==
    IF b = <<>> THEN FALSE
    ELSE IF a = <<>> THEN TRUE
    ELSE IF Head(a) # Head(b) THEN Ord(Head(a)) < Ord(Head(b))
    ELSE str_less(Tail(a), Tail(b))

\* ---------------------------------------------------------------- messages

\* The characters random.choices draws from here, and k.
IdChars == {"a", "7"}
IdLen == 8

\* MailStore._generate_id: "msg-" and IdLen times the drawn character.  The
\* draws are independent in the code; equal draws are enough to name two
\* distinct identifiers and to let two calls draw the same one.
_generate_id(c) == <<"m", "s", "g", "-">> \o [i \in 1..IdLen |-> c]
GeneratedIds == {_generate_id(c) : c \in IdChars}

\* datetime.now().strftime(...): the clock's readings, fixed-width strings.
Clock == {<<"0", "1">>, <<"1", "0">>}

\* stored_recipients without its `if r.strip()`: blank entries are kept.
stored_recipients_unfiltered(recipients) ==
    [i \in 1..Len(recipients) |-> strip(recipients[i])]

\* recipients=[r.strip() for r in recipients if r.strip()]
stored_recipients(recipients) ==
    LET stripped == [i \in 1..Len(recipients) |-> strip(recipients[i])]
    IN  SelectSeq(stripped, LAMBDA r : r # <<>>)

\* attachments=[a.strip() for a in attachments] if attachments else []
stored_attachments(attachments) ==
    IF Truthy(attachments)
    THEN Some([i \in 1..Len(attachments[1]) |-> strip(attachments[1][i])])
    ELSE Some(<<>>)

\* timestamp=timestamp or datetime.now().strftime("%Y-%m-%d %H:%M:%S")
stored_timestamp(timestamp, now) ==
    IF Truthy(timestamp) THEN timestamp[1] ELSE now

\* The Message built by add_message, as asdict() stores it.
Message(id, now, a) ==
    [id             |-> id,
     sender         |-> a.sender,
     recipients     |-> stored_recipients(a.recipients),
     subject        |-> a.subject,
     body           |-> a.body,
     timestamp      |-> stored_timestamp(a.timestamp, now),
     folder         |-> a.folder,
     attachments    |-> stored_attachments(a.attachments),
     forwarded_from |-> a.forwarded_from,
     message_uid    |-> a.message_uid]

\* MailStore.save: the whole document is written to the file.
save(d) == d

\* self.data = {"messages": [], "contacts": []}
EmptyDoc == [messages |-> <<>>, contacts |-> <<>>]

\* The arguments add_message is called with.
Str_Ab == <<"A", "b">>
Str_Inbox == <<"I", "n", "b", "o", "x">>
Str_Sent == <<"S", "e", "n", "t">>
Str_Archive == <<"A", "r", "c", "h", "i", "v", "e">>

AddArgs ==
    { [sender |-> Str_Ab, recipients |-> << <<" ", "c">>, <<" ">>, <<>> >>,
       subject |-> <<"S">>, body |-> <<"x">>, folder |-> Str_Inbox,
       attachments |-> None, forwarded_from |-> None, message_uid |-> None,
       timestamp |-> None],
      [sender |-> <<"b">>, recipients |-> << <<"a">>, <<"d", " ">> >>,
       subject |-> <<>>, body |-> <<"B", "c">>, folder |-> Str_Sent,
       attachments |-> Some(<< <<" ", "f", " ">> >>),
       forwarded_from |-> Some(Str_Ab), message_uid |-> None,
       timestamp |-> Some(<<"2">>)] }

\* first index of a message with this identifier, 0 when there is none:
\* for msg in messages: if msg.get("id") == message_id
first_match(messages, message_id) ==
    IF \E i \in 1..Len(messages) : messages[i].id = message_id
    THEN CHOOSE i \in 1..Len(messages) :
            /\ messages[i].id = message_id
            /\ \A j \in 1..(i - 1) : messages[j].id # message_id
    ELSE 0

\* [m for m in messages if m.get("id") != message_id]
without_id(messages, message_id) ==
    SelectSeq(messages, LAMBDA m : m.id # message_id)

\* with_folder without its `break`: every match is given the folder.
with_folder_no_break(messages, message_id, folder) ==
    [i \in 1..Len(messages) |->
        IF messages[i].id = message_id
        THEN [messages[i] EXCEPT !.folder = folder]
        ELSE messages[i]]

\* with_folder that rebuilds the match from its required fields: the
\* optional forwarded_from and message_uid fall back to None.
with_folder_rebuilt(messages, message_id, folder) ==
    LET i == first_match(messages, message_id)
    IN  IF i = 0 THEN messages
        ELSE [messages EXCEPT ![i] = [@ EXCEPT !.folder = folder,
                                               !.forwarded_from = None,
                                               !.message_uid = None]]

\* msg["folder"] = folder on the first match, then break
with_folder(messages, message_id, folder) ==
    LET i == first_match(messages, message_id)
    IN  IF i = 0 THEN messages
        ELSE [messages EXCEPT ![i].folder = folder]

\* MailStore.add_message
add_message(a, id, now) ==
    /\ Len(data.messages) < MaxMsgs
    /\ LET m == Message(id, now, a)
       IN  /\ data' = [data EXCEPT !.messages = Append(@, m)]
           /\ result' = [kind |-> "msg", msg |-> m]
    /\ disk' = save(data')
    /\ call' = [op |-> "add_message", args |-> a]
    /\ UNCHANGED csv

\* MailStore.delete_message
delete_message(message_id) ==
    /\ data' = [data EXCEPT !.messages = without_id(@, message_id)]
    /\ disk' = save(data')
    /\ call' = [op |-> "delete_message", id |-> message_id]
    /\ result' = [kind |-> "none"]
    /\ UNCHANGED csv

\* MailStore.update_folder
update_folder(message_id, folder) ==
    /\ data' = [data EXCEPT !.messages = with_folder(@, message_id, folder)]
    /\ disk' = save(data')
    /\ call' = [op |-> "update_folder", id |-> message_id, folder |-> folder]
    /\ result' = [kind |-> "none"]
    /\ UNCHANGED csv

\* MailStore.get_message: the first match, or None
get_message(message_id) ==
    /\ call' = [op |-> "get_message", id |-> message_id]
    /\ result' = LET i == first_match(data.messages, message_id)
                 IN  IF i = 0 THEN [kind |-> "none"]
                     ELSE [kind |-> "msg", msg |-> data.messages[i]]
    /\ UNCHANGED <<data, disk, csv>>

\* The text search_messages matches the query against:
\* " ".join([sender, " ".join(recipients), subject, body]).lower()
search_text(msg) ==
    lower(join(<<" ">>, <<msg.sender, join(<<" ">>, msg.recipients),
                          msg.subject, msg.body>>))

\* search_keeps without the folder filter.
search_keeps_any_folder(msg, query, folder) ==
    contains(lower(query), search_text(msg))

\* Whether the loop of search_messages appends msg to filtered.
search_keeps(msg, query, folder) ==
    /\ ~(Truthy(folder) /\ msg.folder # folder[1])
    /\ contains(lower(query), search_text(msg))

\* sorted(filtered, key=timestamp, reverse=True): a stable sort, so an item
\* goes before the first one whose timestamp is smaller than its own.  An
\* item is the position in data["messages"] of the dict the list refers to.
insert_desc(messages, sorted, i) ==
    LET smaller == {k \in 1..Len(sorted) :
                       str_less(messages[sorted[k]].timestamp, messages[i].timestamp)}
        at == IF smaller = {} THEN Len(sorted) + 1
              ELSE CHOOSE k \in smaller : \A j \in smaller : k <= j
    IN  SubSeq(sorted, 1, at - 1) \o <<i>> \o SubSeq(sorted, at, Len(sorted))

RECURSIVE sorted_desc(_, _)
sorted_desc(messages, items) ==
    IF items = <<>> THEN <<>>
    ELSE insert_desc(messages,
                     sorted_desc(messages, SubSeq(items, 1, Len(items) - 1)),
                     items[Len(items)])

\* The list search_messages returns.
search_result(messages, query, folder) ==
    LET all == [i \in 1..Len(messages) |-> i]
        filtered == SelectSeq(all, LAMBDA i : search_keeps(messages[i], query, folder))
    IN  sorted_desc(messages, filtered)

\* MailStore.search_messages
search_messages(query, folder) ==
    /\ call' = [op |-> "search_messages", query |-> query, folder |-> folder]
    /\ result' = [kind |-> "list", items |-> search_result(data.messages, query, folder)]
    /\ UNCHANGED <<data, disk, csv>>

\* ---------------------------------------------------------------- contacts

\* MailStore.add_contact
add_contact(name, email) ==
    /\ Len(data.contacts) < MaxContacts
    /\ data' = [data EXCEPT !.contacts = Append(@, [name |-> name, email |-> email])]
    /\ disk' = save(data')
    /\ call' = [op |-> "add_contact", name |-> name, email |-> email]
    /\ result' = [kind |-> "none"]
    /\ UNCHANGED csv

\* MailStore.update_contact: saves only when the index is in range
update_contact(index, name, email) ==
    /\ IF 0 <= index /\ index < Len(data.contacts)
       THEN /\ data' = [data EXCEPT !.contacts[index + 1] = [name |-> name, email |-> email]]
            /\ disk' = save(data')
       ELSE UNCHANGED <<data, disk>>
    /\ call' = [op |-> "update_contact", index |-> index, name |-> name, email |-> email]
    /\ result' = [kind |-> "none"]
    /\ UNCHANGED csv

\* pop that takes the last contact whatever the index: contacts.pop()
pop_last(contacts, index) ==
    SubSeq(contacts, 1, Len(contacts) - 1)

\* contacts.pop(index), for an index in range
pop(contacts, index) ==
    SubSeq(contacts, 1, index) \o SubSeq(contacts, index + 2, Len(contacts))

\* MailStore.delete_contact: saves only when the index is in range
delete_contact(index) ==
    /\ IF 0 <= index /\ index < Len(data.contacts)
       THEN /\ data' = [data EXCEPT !.contacts = pop(@, index)]
            /\ disk' = save(data')
       ELSE UNCHANGED <<data, disk>>
    /\ call' = [op |-> "delete_contact", index |-> index]
    /\ result' = [kind |-> "none"]
    /\ UNCHANGED csv

\* `for line in f` on a text file: the lines, each with its "\n" when it has one
RECURSIVE file_lines(_)
file_lines(text) ==
    IF text = <<>> THEN <<>>
    ELSE LET ends == {i \in 1..Len(text) : text[i] = "\n"}
             nl == IF ends = {} THEN Len(text)
                   ELSE CHOOSE i \in ends : \A j \in ends : i <= j
         IN  <<SubSeq(text, 1, nl)>> \o file_lines(SubSeq(text, nl + 1, Len(text)))

\* s.split(",", 1): one part when s has no comma, else the text before the
\* first comma and the text after it
split_once(s) ==
    LET commas == {i \in 1..Len(s) : s[i] = ","}
    IN  IF commas = {} THEN <<s>>
        ELSE LET c == CHOOSE i \in commas : \A j \in commas : i <= j
             IN  <<SubSeq(s, 1, c - 1), SubSeq(s, c + 1, Len(s))>>

\* import_lines without the strip() of the line: the email keeps the "\n".
RECURSIVE import_lines_no_strip(_, _)
import_lines_no_strip(contacts, lines) ==
    IF lines = <<>> THEN [contacts |-> contacts, raised |-> FALSE]
    ELSE LET parts == split_once(Head(lines))
         IN  IF Len(parts) # 2
             THEN [contacts |-> contacts, raised |-> TRUE]
             ELSE import_lines_no_strip(
                      Append(contacts, [name |-> parts[1], email |-> parts[2]]),
                      Tail(lines))

\* import_lines that passes over a line it cannot split and goes on.
RECURSIVE import_lines_skip_bad(_, _)
import_lines_skip_bad(contacts, lines) ==
    IF lines = <<>> THEN [contacts |-> contacts, raised |-> FALSE]
    ELSE LET parts == split_once(strip(Head(lines)))
         IN  IF Len(parts) # 2
             THEN import_lines_skip_bad(contacts, Tail(lines))
             ELSE import_lines_skip_bad(
                      Append(contacts, [name |-> parts[1], email |-> parts[2]]),
                      Tail(lines))

\* The loop of import_contacts: `name, email = ...` raises ValueError when the
\* split has one part; the contacts appended before that stay appended.
RECURSIVE import_lines(_, _)
import_lines(contacts, lines) ==
    IF lines = <<>> THEN [contacts |-> contacts, raised |-> FALSE]
    ELSE LET parts == split_once(strip(Head(lines)))
         IN  IF Len(parts) # 2
             THEN [contacts |-> contacts, raised |-> TRUE]
             ELSE import_lines(Append(contacts, [name |-> parts[1], email |-> parts[2]]),
                               Tail(lines))

\* The text export_contacts writes: f"{name},{email}\n" for each contact
RECURSIVE export_text(_)
export_text(contacts) ==
    IF contacts = <<>> THEN <<>>
    ELSE Head(contacts).name \o <<",">> \o Head(contacts).email \o <<"\n">>
         \o export_text(Tail(contacts))

\* MailStore.import_contacts: returns at once when the file does not exist;
\* save() is reached only when no line raised.
import_contacts ==
    /\ call' = [op |-> "import_contacts"]
    /\ IF csv = None
       THEN /\ result' = [kind |-> "none"]
            /\ UNCHANGED <<data, disk>>
       ELSE LET r == import_lines(data.contacts, file_lines(csv[1]))
            IN  /\ Len(r.contacts) <= MaxContacts
                /\ data' = [data EXCEPT !.contacts = r.contacts]
                /\ disk' = IF r.raised THEN disk ELSE save(data')
                /\ result' = IF r.raised
                             THEN [kind |-> "raise", exc |-> "ValueError"]
                             ELSE [kind |-> "none"]
    /\ UNCHANGED csv

\* MailStore.export_contacts
export_contacts ==
    /\ csv' = Some(export_text(data.contacts))
    /\ call' = [op |-> "export_contacts"]
    /\ result' = [kind |-> "none"]
    /\ UNCHANGED <<data, disk>>

\* MailStore(other_path).import_contacts(path) followed by contacts(): a
\* second store, built on a data file of its own that does not exist yet,
\* imports the file; the result is that store's contacts list.
import_into_fresh ==
    /\ csv # None
    /\ call' = [op |-> "import_into_fresh"]
    /\ LET r == import_lines(EmptyDoc.contacts, file_lines(csv[1]))
       IN  result' = [kind |-> IF r.raised THEN "raise" ELSE "contacts",
                      contacts |-> r.contacts]
    /\ UNCHANGED <<data, disk, csv>>

\* Someone else writes the file at the contacts path.
write_csv(text) ==
    /\ csv' = Some(text)
    /\ call' = [op |-> "write_csv"]
    /\ result' = [kind |-> "none"]
    /\ UNCHANGED <<data, disk>>

\* -------------------------------------------------------------------- sync

\* str(n), for msg_id.decode(): the sequence number in decimal
RECURSIVE decimal(_)
decimal(n) ==
    LET digit == <<"0", "1", "2", "3", "4", "5", "6", "7", "8", "9">>[(n % 10) + 1]
    IN  IF n < 10 THEN <<digit>> ELSE decimal(n \div 10) \o <<digit>>

\* ids[-limit:]
last_n(ids, limit) ==
    LET n == Len(ids)
    IN  IF limit = 0 THEN ids
        ELSE IF limit > 0 THEN SubSeq(ids, IF n > limit THEN n - limit + 1 ELSE 1, n)
        ELSE SubSeq(ids, (IF -limit < n THEN -limit ELSE n) + 1, n)

\* uid = parsed.get("Message-ID") or f"imap-{msg_id.decode()}"
remote_uid(remote, msg_id) ==
    IF Truthy(remote.message_id) THEN remote.message_id[1]
    ELSE <<"i", "m", "a", "p", "-">> \o decimal(msg_id)

\* {msg.get("message_uid") for msg in messages if msg.get("message_uid")}
existing_uids(messages) ==
    {messages[i].message_uid[1] : i \in {k \in 1..Len(messages) : Truthy(messages[k].message_uid)}}

\* The arguments sync_imap passes to add_message for a fetched message.  The
\* fields are those _parse_email_message returns: the headers decoded, the
\* plain-text body, the Date header converted (empty when there is none).
sync_args(remote, uid) ==
    [sender |-> remote.sender, recipients |-> remote.recipients,
     subject |-> remote.subject, body |-> remote.body, folder |-> Str_Inbox,
     attachments |-> Some(<<>>), forwarded_from |-> None,
     message_uid |-> Some(uid), timestamp |-> Some(remote.timestamp)]

\* The loop of sync_imap over the page `ids`: every way it can end, as
\* [messages, added].  A fetch may fail (the message is skipped); a message
\* whose uid is in existing_uids is skipped; any other is added, with the
\* identifier and the clock reading add_message draws for it.
RECURSIVE sync_loop(_, _, _, _)
sync_loop(messages, ids, mailbox, existing) ==
    IF ids = <<>> THEN {[messages |-> messages, added |-> 0]}
    ELSE LET msg_id == Head(ids)
             uid == remote_uid(mailbox[msg_id], msg_id)
             skipped == sync_loop(messages, Tail(ids), mailbox, existing)
             inserted ==
                 UNION { { [messages |-> o.messages, added |-> o.added + 1] :
                           o \in sync_loop(
                               Append(messages, Message(id, now, sync_args(mailbox[msg_id], uid))),
                               Tail(ids), mailbox, existing) } :
                         id \in GeneratedIds, now \in Clock }
         IN  skipped \cup (IF uid \in existing THEN {} ELSE inserted)

\* The provider keys of _default_providers.
ProviderKeys == {"qq", "163", "126", "sina", "aliyun", "outlook"}

\* select_failed when the status is never looked at.
select_failed_ignored(s) == FALSE

\* if status != "OK", on the status select returned
select_failed(s) == s.select # "OK"

\* MailStore.sync_imap against a server session s: the provider key given,
\* the status of select and of search, and the mailbox the search lists
\* (message sequence numbers 1..Len(mailbox)).  The result carries the
\* commands sent to the server, in order.
sync_imap(s, limit) ==
    /\ call' = [op |-> "sync_imap", session |-> s, limit |-> limit]
    /\ IF s.provider_key \notin ProviderKeys
       THEN /\ result' = [kind |-> "count", count |-> 0, commands |-> <<>>]
            /\ UNCHANGED <<data, disk>>
       ELSE IF select_failed(s)
       THEN /\ result' = [kind |-> "raise", exc |-> "RuntimeError",
                          commands |-> <<"login", "select", "logout">>]
            /\ UNCHANGED <<data, disk>>
       ELSE IF s.search # "OK"
       THEN /\ result' = [kind |-> "count", count |-> 0,
                          commands |-> <<"login", "select", "search", "logout">>]
            /\ UNCHANGED <<data, disk>>
       ELSE LET ids == last_n([i \in 1..Len(s.mailbox) |-> i], limit)
            IN  \E o \in sync_loop(data.messages, ids, s.mailbox,
                                   existing_uids(data.messages)) :
                    /\ Len(o.messages) <= MaxMsgs
                    /\ data' = [data EXCEPT !.messages = o.messages]
                    /\ disk' = IF o.added > 0 THEN save(data') ELSE disk
                    /\ result' = [kind |-> "count", count |-> o.added,
                                  commands |-> <<"login", "select", "search">>
                                               \o [i \in 1..Len(ids) |-> "fetch"]
                                               \o <<"logout">>]
    /\ UNCHANGED csv

\* ----------------------------------------------------------- specification

\* The inputs of the calls.
Id_a == _generate_id("a")
\* An identifier no message of the store carries.
AbsentId == <<"m", "s", "g", "-", "z">>
MessageIds == GeneratedIds \cup {AbsentId}
Folders == {Str_Archive}
Queries == {<<>>, <<"a">>, <<"B", "C">>, <<"b", " ", "c">>, <<" ">>, <<"z">>}
FolderFilters == {None, Some(<<>>), Some(Str_Inbox), Some(Str_Archive)}

Contact_Ax == [name |-> <<"A">>, email |-> <<"x">>]
ContactArgs ==
    { Contact_Ax,
      [name |-> <<" ", "A">>, email |-> <<"x", " ">>],
      [name |-> <<>>, email |-> <<>>] }
ContactIndexes == -1..MaxContacts

\* Files found at the contacts path: two well-formed lines; a blank line
\* after the first; a line without a comma after the first; one line with
\* two commas.
CsvFiles ==
    { <<"A", ",", "x", "\n", ",", "\n">>,
      <<"A", ",", "x", "\n", "\n", ",", "\n">>,
      <<"A", ",", "x", "\n", "A", "\n", ",", "\n">>,
      <<"A", ",", "x", ",", "\n">> }

\* Messages of the remote mailbox: two that carry the same Message-ID, and
\* one with neither a Message-ID nor a Date header.
Remote_1 ==
    [message_id |-> Some(<<"i", "1">>), sender |-> <<"a">>,
     recipients |-> << <<"b">>, <<" ">> >>, subject |-> <<"S">>,
     body |-> <<"x">>, timestamp |-> <<"0", "2">>]
Remote_2 ==
    [message_id |-> Some(<<"i", "1">>), sender |-> <<"b">>,
     recipients |-> << <<"a">> >>, subject |-> <<"t">>,
     body |-> <<>>, timestamp |-> <<"0", "3">>]
Remote_3 ==
    [message_id |-> None, sender |-> <<"c">>,
     recipients |-> <<>>, subject |-> <<>>,
     body |-> <<"x">>, timestamp |-> <<>>]
Mailboxes == {<<>>, <<Remote_1>>, <<Remote_1, Remote_2>>, <<Remote_3, Remote_1>>}
Sessions ==
    { [provider_key |-> "gmail", select |-> "OK", search |-> "OK", mailbox |-> <<>>],
      [provider_key |-> "qq", select |-> "NO", search |-> "OK", mailbox |-> <<>>],
      [provider_key |-> "qq", select |-> "OK", search |-> "NO", mailbox |-> <<>>] }
    \cup { [provider_key |-> "qq", select |-> "OK", search |-> "OK", mailbox |-> mb] :
            mb \in Mailboxes }

Limits == {0, 1, MaxLimit}

\* A document an earlier run of the program saved, by an add_message and an
\* add_contact on the empty store: one message, one contact.
SavedDoc ==
    [messages |-> << Message(Id_a, <<"0", "1">>,
                             CHOOSE a \in AddArgs : a.folder = Str_Sent) >>,
     contacts |-> <<Contact_Ax>>]

\* What the data file can hold besides a saved document: text json.load
\* rejects with JSONDecodeError (NotJson, the file cut off after "{"), and
\* the text "[]", which json.load reads as an empty list (JsonList).
NotJson == [text |-> "{"]
JsonList == [list |-> <<>>]
ForeignFiles == {NotJson, JsonList}

\* Whether a loaded value is a dict with the keys of a store document.
is_dict(d) == DOMAIN d = {"messages", "contacts"}

\* What MailStore.load assigns to self.data for an existing file: the value
\* json.load returns, the empty document on JSONDecodeError.
load(file) == IF file = NotJson THEN EmptyDoc ELSE file

\* MailStore(data_path) on the file as it is: _ensure_paths finds the file
\* and writes nothing, load reads it.
reopen ==
    /\ data' = load(disk)
    /\ call' = [op |-> "load"]
    /\ result' = [kind |-> "none"]
    /\ UNCHANGED <<disk, csv>>

\* The data file replaced from outside the program.
overwrite_file(content) ==
    /\ disk' = content
    /\ call' = [op |-> "overwrite_file"]
    /\ result' = [kind |-> "none"]
    /\ UNCHANGED <<data, csv>>

\* self.data.get / self.data.setdefault when self.data is not a dict
attribute_error(op) ==
    /\ ~is_dict(data)
    /\ call' = [op |-> op]
    /\ result' = [kind |-> "raise", exc |-> "AttributeError"]
    /\ UNCHANGED <<data, disk, csv>>

\* -------------------------------------------------------------------- send

\* s.split(","): the pieces between the commas, one piece when there is none
RECURSIVE split(_)
split(s) ==
    LET parts == split_once(s)
    IN  IF Len(parts) = 1 THEN parts
        ELSE <<parts[1]>> \o split(parts[2])

\* [r.strip() for r in pieces if r.strip()]
RECURSIVE stripped_nonblank(_)
stripped_nonblank(pieces) ==
    IF pieces = <<>> THEN <<>>
    ELSE IF strip(Head(pieces)) = <<>> THEN stripped_nonblank(Tail(pieces))
    ELSE <<strip(Head(pieces))>> \o stripped_nonblank(Tail(pieces))

\* The subject send_mail gives a message without one; each element is one
\* character, the three ideographs named by their code points.
NoSubject == <<"(", "U+65E0", "U+4E3B", "U+9898", ")">>

\* The ways MailStore.send_smtp can end: ValueError for a provider key
\* without settings; else it returns, or the connection, the login or the
\* transmission raises.
send_smtp(provider_key) ==
    IF provider_key \notin ProviderKeys THEN {"ValueError"}
    ELSE {"returned", "SMTPException"}

\* records_sent that does not depend on how send_smtp ended.
records_sent_always(outcome) == TRUE

\* Whether send_mail goes on to add_message: inside the try, after
\* send_smtp has returned or has not been called.
records_sent(outcome) == outcome \in {"returned", "not called"}

\* EmailManagerApp.send_mail on the compose form (the texts of from_var,
\* to_var, subject_var, body_text, attach_var) with the active account, None
\* or (email, provider_key).  The result records the dialog shown, how
\* send_smtp ended and whether clear_compose ran.
send_mail(form, account, id, now) ==
    LET sender == strip(form.from_var)
        recipients == stripped_nonblank(split(form.to_var))
        subject == IF strip(form.subject_var) # <<>>
                   THEN strip(form.subject_var) ELSE NoSubject
        body == strip(form.body_text)
        attachments == stripped_nonblank(split(form.attach_var))
        a == [sender |-> sender, recipients |-> recipients, subject |-> subject,
              body |-> body, folder |-> Str_Sent,
              attachments |-> Some(attachments), forwarded_from |-> None,
              message_uid |-> None, timestamp |-> None]
    IN  /\ call' = [op |-> "send_mail", form |-> form, account |-> account]
        /\ UNCHANGED csv
        /\ IF sender = <<>> \/ recipients = <<>>
           THEN /\ result' = [kind |-> "none", dialog |-> "showwarning",
                              smtp |-> "not called", cleared |-> FALSE]
                /\ UNCHANGED <<data, disk>>
           ELSE \E outcome \in (IF Truthy(account) THEN send_smtp(account[1][2])
                                 ELSE {"not called"}) :
                    IF records_sent(outcome)
                    THEN /\ Len(data.messages) < MaxMsgs
                         /\ data' = [data EXCEPT !.messages = Append(@, Message(id, now, a))]
                         /\ disk' = save(data')
                         /\ result' = [kind |-> "none", dialog |-> "showinfo",
                                       smtp |-> outcome, cleared |-> TRUE]
                    ELSE /\ result' = [kind |-> "none", dialog |-> "showerror",
                                       smtp |-> outcome, cleared |-> FALSE]
                         /\ UNCHANGED <<data, disk>>

\* Compose forms: a complete one without a subject; one without a sender;
\* one whose recipients field holds only a comma and blanks; a complete one
\* with a subject and an attachment.
Forms ==
    { [from_var |-> <<"a", " ">>, to_var |-> <<"b", ",", " ", ",", "c">>,
       subject_var |-> <<" ">>, body_text |-> <<"x", "\n">>, attach_var |-> <<>>],
      [from_var |-> <<" ">>, to_var |-> <<"b">>,
       subject_var |-> <<"S">>, body_text |-> <<"x", "\n">>, attach_var |-> <<>>],
      [from_var |-> <<"a">>, to_var |-> <<" ", ",", " ">>,
       subject_var |-> <<"S">>, body_text |-> <<"x", "\n">>, attach_var |-> <<>>],
      [from_var |-> <<"a">>, to_var |-> <<"b">>,
       subject_var |-> <<"S">>, body_text |-> <<"\n">>,
       attach_var |-> <<"f", ",", " ">>] }

\* active_account: None before a login, (email, provider_key) after one
Accounts == {None, Some(<<<<"a">>, "qq">>)}

\* MailStore.__init__: the data file is created empty when it does not
\* exist, and loaded.
Init ==
    /\ data \in {EmptyDoc, SavedDoc}
    /\ disk = data
    /\ csv = None
    /\ call = [op |-> "init"]
    /\ result = [kind |-> "none"]

AddMessage == \E a \in AddArgs, id \in GeneratedIds, now \in Clock : add_message(a, id, now)
DeleteMessage == \E id \in MessageIds : delete_message(id)
UpdateFolder == \E id \in MessageIds, f \in Folders : update_folder(id, f)
GetMessage == \E id \in MessageIds : get_message(id)
ListFolder == \E f \in FolderFilters : search_messages(<<>>, f)
SearchMessages == \E q \in Queries, f \in {None, Some(Str_Inbox)} : search_messages(q, f)
SyncImap == \E s \in Sessions, limit \in Limits : sync_imap(s, limit)
AddContact == \E c \in ContactArgs : add_contact(c.name, c.email)
UpdateContact == \E i \in ContactIndexes, c \in ContactArgs : update_contact(i, c.name, c.email)
DeleteContact == \E i \in ContactIndexes : delete_contact(i)
ImportContacts == import_contacts
ExportContacts == export_contacts
ImportIntoFresh == import_into_fresh
WriteCsv == \E text \in CsvFiles : write_csv(text)

SendLocal == \E a \in {p \in AddArgs : p.folder = Str_Sent}, id \in GeneratedIds :
                 add_message(a, id, <<"1", "0">>)
SyncOne == \E s \in {t \in Sessions : t.mailbox = <<Remote_1>>}, limit \in {1, MaxLimit} :
               sync_imap(s, limit)
AddOneContact == add_contact(Contact_Ax.name, Contact_Ax.email)
SendMail == \E form \in Forms, account \in Accounts, id \in GeneratedIds, now \in Clock :
                send_mail(form, account, id, now)
Reopen == reopen
OverwriteFile == \E content \in ForeignFiles : overwrite_file(content)
LoadedAddContact == is_dict(data) /\ AddContact
LoadedDeleteContact == is_dict(data) /\ DeleteContact
OnNonDict == \E op \in {"add_contact", "delete_contact"} : attribute_error(op)

\* The message store: compose, file, look up, list, delete.
Next ==
    \/ AddMessage
    \/ DeleteMessage
    \/ UpdateFolder
    \/ GetMessage
    \/ ListFolder

Spec == Init /\ [][Next]_vars

\* Search over the stored messages.
NextSearch ==
    \/ AddMessage
    \/ SearchMessages

SpecSearch == Init /\ [][NextSearch]_vars

\* Synchronisation with a remote mailbox, between local additions.
NextSync ==
    \/ AddMessage
    \/ SyncImap

SpecSync == Init /\ [][NextSync]_vars

\* The contacts list and its CSV file.
NextContacts ==
    \/ AddContact
    \/ UpdateContact
    \/ DeleteContact
    \/ ImportContacts
    \/ ExportContacts
    \/ ImportIntoFresh
    \/ WriteCsv

SpecContacts == Init /\ [][NextContacts]_vars

\* The store reopened on a data file that may have been replaced.
NextLoad ==
    \/ Reopen
    \/ OverwriteFile
    \/ LoadedAddContact
    \/ LoadedDeleteContact
    \/ OnNonDict

SpecLoad == Init /\ [][NextLoad]_vars

\* The life of a message: stored by add_message or by sync_imap, filed,
\* deleted, with a contact operation in between.
NextLifecycle ==
    \/ SendLocal
    \/ SyncOne
    \/ UpdateFolder
    \/ DeleteMessage
    \/ AddOneContact

SpecLifecycle == Init /\ [][NextLifecycle]_vars

\* The compose form sent again and again, messages deleted in between.
NextSend ==
    \/ SendMail
    \/ DeleteMessage

SpecSend == Init /\ [][NextSend]_vars

\* ------------------------------------------------------------------ claims

\* The positions of the messages that carry an identifier.
WithId(messages, id) == {i \in 1..Len(messages) : messages[i].id = id}

\* The sequence s without its i-th element.
Without(s, i) == SubSeq(s, 1, i - 1) \o SubSeq(s, i + 1, Len(s))

\* C1: add_message followed at once by get_message(returned.id) yields a
\* record whose sender, subject, body and folder are the arguments just
\* passed and whose identifier is not empty, whatever the store held before.
C1_AddThenGet ==
    [][ (/\ call.op = "add_message"
         /\ call'.op = "get_message"
         /\ call'.id = result.msg.id)
        => (/\ result'.kind = "msg"
            /\ result'.msg.id # <<>>
            /\ result'.msg.sender = call.args.sender
            /\ result'.msg.subject = call.args.subject
            /\ result'.msg.body = call.args.body
            /\ result'.msg.folder = call.args.folder) ]_vars

\* C2: delete_message(id) removes exactly the one record with that
\* identifier, keeps every other message in its place and order and the
\* contacts as they were; with no such record the messages are unchanged.
C2_DeleteExactlyOne ==
    [][ call'.op = "delete_message"
        => LET hits == WithId(data.messages, call'.id)
           IN  /\ data'.contacts = data.contacts
               /\ IF hits = {} THEN data'.messages = data.messages
                  ELSE \E i \in hits : data'.messages = Without(data.messages, i) ]_vars

\* C3: search_messages("", folder="Inbox") returns exactly the stored
\* messages whose folder is "Inbox", each once, in non-increasing order of
\* timestamp string, and leaves the store as it was.
C3_SearchInbox ==
    [][ (/\ call'.op = "search_messages"
         /\ call'.query = <<>>
         /\ call'.folder = Some(Str_Inbox))
        => LET items == result'.items
               msgs == data.messages
           IN  /\ data' = data /\ disk' = disk /\ csv' = csv
               /\ result'.kind = "list"
               /\ \A k \in 1..Len(items) : items[k] \in 1..Len(msgs)
               /\ \A i \in 1..Len(msgs) :
                      (msgs[i].folder = Str_Inbox) <=> (\E k \in 1..Len(items) : items[k] = i)
               /\ \A k, l \in 1..Len(items) : k # l => items[k] # items[l]
               /\ \A k, l \in 1..Len(items) :
                      k < l => ~str_less(msgs[items[k]].timestamp, msgs[items[l]].timestamp) ]_vars

\* Two Inbox messages came back in the reverse of the order they are stored in.
C3_Witness ==
    /\ call.op = "search_messages"
    /\ call.query = <<>>
    /\ call.folder = Some(Str_Inbox)
    /\ Len(data.messages) = 2
    /\ result.items = <<2, 1>>

\* Whether q, compared case-insensitively, is a substring of the sender, of
\* one of the recipients, of the subject or of the body of msg.
InSomeField(q, msg) ==
    \/ contains(lower(q), lower(msg.sender))
    \/ \E r \in 1..Len(msg.recipients) : contains(lower(q), lower(msg.recipients[r]))
    \/ contains(lower(q), lower(msg.subject))
    \/ contains(lower(q), lower(msg.body))

\* C4: search_messages(q) without a folder filter returns a stored message
\* if and only if q, compared case-insensitively, is a substring of its
\* sender, of one of its recipients, of its subject or of its body.
C4_SearchByField ==
    (call.op = "search_messages" /\ call.folder = None)
    => \A i \in 1..Len(data.messages) :
          (\E k \in 1..Len(result.items) : result.items[k] = i)
          <=> InSomeField(call.query, data.messages[i])

\* Whether no name and no email of the contacts holds a comma.
NoComma(contacts) ==
    \A i \in 1..Len(contacts) :
        /\ \A k \in 1..Len(contacts[i].name) : contacts[i].name[k] # ","
        /\ \A k \in 1..Len(contacts[i].email) : contacts[i].email[k] # ","

\* C5: for contacts without commas, export_contacts followed by
\* import_contacts into a fresh empty store yields the same (name, email)
\* pairs in the same order.
C5_ExportImportRoundTrip ==
    [][ (/\ call.op = "export_contacts"
         /\ call'.op = "import_into_fresh"
         /\ NoComma(data.contacts))
        => (/\ result'.kind = "contacts"
            /\ result'.contacts = data.contacts) ]_vars

\* The number of commas in a string.
Commas(s) == Cardinality({i \in 1..Len(s) : s[i] = ","})

\* C6: import_contacts on a file of k lines, each `name,email` with one
\* comma, appends exactly k contacts, the i-th from the i-th line, after the
\* contacts already present, and leaves those and all messages unchanged.
C6_ImportAppends ==
    [][ (/\ call'.op = "import_contacts"
         /\ csv # None
         /\ \A i \in 1..Len(file_lines(csv[1])) : Commas(file_lines(csv[1])[i]) = 1)
        => LET lines == file_lines(csv[1])
               old == data.contacts
               new == data'.contacts
           IN  /\ result'.kind = "none"
               /\ data'.messages = data.messages
               /\ Len(new) = Len(old) + Len(lines)
               /\ \A i \in 1..Len(old) : new[i] = old[i]
               /\ \A i \in 1..Len(lines) :
                      /\ Commas(new[Len(old) + i].name) = 0
                      /\ new[Len(old) + i].name \o <<",">> \o new[Len(old) + i].email
                         = strip(lines[i]) ]_vars

\* A two-line file was imported into a store that holds a message.
C6_Witness ==
    /\ call.op = "import_contacts"
    /\ result.kind = "none"
    /\ csv # None
    /\ Len(file_lines(csv[1])) = 2
    /\ Len(data.contacts) = 2
    /\ data.contacts[1] # data.contacts[2]
    /\ data.messages # <<>>

\* C7: no two messages of the store have the same identifier.
C7_UniqueIds ==
    \A i, j \in 1..Len(data.messages) :
        i # j => data.messages[i].id # data.messages[j].id

IsBlank(s) == \A k \in 1..Len(s) : s[k] \in Whitespace

\* Whether t is s without its leading and trailing whitespace.
IsTrimOf(t, s) ==
    /\ t # <<>>
    /\ Head(t) \notin Whitespace
    /\ t[Len(t)] \notin Whitespace
    /\ \E i \in 0..(Len(s) - Len(t)) :
          /\ SubSeq(s, i + 1, i + Len(t)) = t
          /\ \A k \in (1..i) \cup ((i + Len(t) + 1)..Len(s)) : s[k] \in Whitespace

\* Whether `stored` is the non-blank entries of `given`, trimmed, in order.
KeptInOrder(stored, given) ==
    LET kept == {i \in 1..Len(given) : ~IsBlank(given[i])}
    IN  /\ Len(stored) = Cardinality(kept)
        /\ \A i \in kept :
              IsTrimOf(stored[Cardinality({j \in kept : j <= i})], given[i])

\* C8: every message add_message stores, called directly or by sync_imap,
\* has the non-blank recipients it was given, trimmed and in order, and an
\* attachments list, never None: the empty list when none were given.
C8_RecipientsAndAttachments ==
    [][ /\ \A i \in 1..Len(data'.messages) :
              /\ \A r \in 1..Len(data'.messages[i].recipients) :
                    IsTrimOf(data'.messages[i].recipients[r], data'.messages[i].recipients[r])
              /\ data'.messages[i].attachments # None
        /\ \A i \in (Len(data.messages) + 1)..Len(data'.messages) :
              LET m == data'.messages[i]
              IN  IF call'.op = "add_message"
                  THEN /\ KeptInOrder(m.recipients, call'.args.recipients)
                       /\ ~Truthy(call'.args.attachments) => m.attachments = Some(<<>>)
                  ELSE /\ call'.op = "sync_imap"
                       /\ m.attachments = Some(<<>>)
                       /\ \E k \in 1..Len(call'.session.mailbox) :
                             KeptInOrder(m.recipients, call'.session.mailbox[k].recipients) ]_vars

\* A sync has added a message whose To header had a blank entry, to a store
\* that holds a message composed with blank recipients and no attachments.
C8_Witness ==
    /\ call.op = "sync_imap"
    /\ result.kind = "count"
    /\ result.count = 1
    /\ Len(data.messages) = 2
    /\ data.messages[1].recipients = << <<"c">> >>
    /\ data.messages[1].attachments = Some(<<>>)
    /\ data.messages[2].recipients = << <<"b">> >>

\* C9: update_folder(id, folder) sets the folder of the first message with
\* that identifier and changes nothing else; with no such message the store
\* is unchanged; a search_messages("", folder) made next returns the message.
C9_UpdateFolder ==
    [][ /\ call'.op = "update_folder"
           => LET hits == WithId(data.messages, call'.id)
              IN  /\ data'.contacts = data.contacts
                  /\ csv' = csv
                  /\ Len(data'.messages) = Len(data.messages)
                  /\ \A i \in 1..Len(data.messages) :
                        IF i \in hits /\ \A j \in hits : i <= j
                        THEN data'.messages[i] =
                                 [data.messages[i] EXCEPT !.folder = call'.folder]
                        ELSE data'.messages[i] = data.messages[i]
        /\ (/\ call.op = "update_folder"
            /\ call'.op = "search_messages"
            /\ call'.query = <<>>
            /\ call'.folder = Some(call.folder))
           => \A i \in WithId(data.messages, call.id) :
                 (\A j \in WithId(data.messages, call.id) : i <= j)
                 => \E k \in 1..Len(result'.items) : result'.items[k] = i ]_vars

\* update_folder has moved the first of two messages that share an
\* identifier, and not the second.
C9_Witness ==
    /\ call.op = "update_folder"
    /\ Len(data.messages) = 2
    /\ data.messages[1].id = call.id
    /\ data.messages[2].id = call.id
    /\ data.messages[1].folder = call.folder
    /\ data.messages[2].folder # call.folder
    /\ data.contacts # <<>>

\* C10: no two stored messages have the same non-empty remote identifier
\* (message_uid).
C10_UniqueRemoteIds ==
    \A i, j \in 1..Len(data.messages) :
        (i # j /\ Truthy(data.messages[i].message_uid))
        => data.messages[i].message_uid # data.messages[j].message_uid

\* C11: a sync_imap call with page size N adds at most N messages and
\* returns a count between 0 and N, the number of messages it added, for
\* every N >= 0.
C11_SyncAtMostLimit ==
    [][ (call'.op = "sync_imap" /\ result'.kind = "count")
        => (/\ result'.count >= 0
            /\ result'.count <= call'.limit
            /\ Len(data'.messages) = Len(data.messages) + result'.count) ]_vars

\* C12: when select does not return OK, sync_imap logs out and raises its
\* RuntimeError, having sent neither search nor fetch, and the store's
\* messages and contacts are as they were.
C12_SelectFailureRaises ==
    [][ (call'.op = "sync_imap"
         /\ call'.session.provider_key \in ProviderKeys
         /\ call'.session.select # "OK")
        => (/\ result'.kind = "raise"
            /\ result'.exc = "RuntimeError"
            /\ result'.commands = <<"login", "select", "logout">>
            /\ data' = data
            /\ disk' = disk) ]_vars

\* A sync whose select failed has raised, on a store that holds a message.
C12_Witness ==
    /\ call.op = "sync_imap"
    /\ call.session.select = "NO"
    /\ result.kind = "raise"
    /\ data.messages # <<>>

\* What import_contacts does with a file whose offending lines are the set
\* bad of line numbers: it raises at the first of them, the lines before it
\* are appended after the contacts already present, each split at its first
\* comma, and nothing of the later lines is; it returns when bad is empty.
StopsAtFirst(bad, lines, old, new, res) ==
    LET stop == IF bad = {} THEN Len(lines) + 1
                ELSE CHOOSE b \in bad : \A c \in bad : b <= c
    IN  /\ res.kind = IF bad = {} THEN "none" ELSE "raise"
        /\ Len(new) = Len(old) + stop - 1
        /\ \A i \in 1..Len(old) : new[i] = old[i]
        /\ \A i \in 1..(stop - 1) :
               /\ Commas(new[Len(old) + i].name) = 0
               /\ new[Len(old) + i].name \o <<",">> \o new[Len(old) + i].email
                  = strip(lines[i])

\* C13: import_contacts raises on the first line that is not one name and
\* one email around exactly one comma (a blank line, a line with no comma,
\* a line with more than one comma); the contacts of the lines before it
\* stay appended and no later line is imported.
C13_ImportRaisesUnlessOneComma ==
    [][ (call'.op = "import_contacts" /\ csv # None)
        => LET lines == file_lines(csv[1])
           IN  StopsAtFirst({i \in 1..Len(lines) : Commas(lines[i]) # 1},
                            lines, data.contacts, data'.contacts, result') ]_vars

\* C13, amended: import_contacts raises on the first line that holds no
\* comma (a blank line or a line without a comma); the contacts of the lines
\* before it stay appended and no later line is imported; a line with more
\* than one comma is split at its first comma and imported.
C13_ImportRaisesOnNoComma ==
    [][ (call'.op = "import_contacts" /\ csv # None)
        => LET lines == file_lines(csv[1])
           IN  StopsAtFirst({i \in 1..Len(lines) : Commas(lines[i]) = 0},
                            lines, data.contacts, data'.contacts, result') ]_vars

\* An import has raised at its second line and kept the contact of the first.
C13_Witness ==
    /\ call.op = "import_contacts"
    /\ result.kind = "raise"
    /\ csv # None
    /\ Commas(file_lines(csv[1])[2]) = 0
    /\ Len(data.contacts) = 2
    /\ data.contacts[2] = Contact_Ax

\* C14: when a MailStore operation has ended, by returning or by raising,
\* the document on disk equals the document in memory.
C14_EveryMutationPersisted == disk = data

\* C15: loading a store whose file is not a well-formed store document does
\* not raise, makes the in-memory document the empty store, and leaves the
\* file as it was.
C15_MalformedFileLoadsEmpty ==
    [][ (call'.op = "load" /\ ~is_dict(disk))
        => (/\ result'.kind = "none"
            /\ data' = EmptyDoc
            /\ disk' = disk) ]_vars

\* Whether s can be had from t by leaving elements out.
RECURSIVE IsSubseq(_, _)
IsSubseq(s, t) ==
    IF s = <<>> THEN TRUE
    ELSE IF t = <<>> THEN FALSE
    ELSE IF Head(s) = Head(t) THEN IsSubseq(Tail(s), Tail(t))
    ELSE IsSubseq(s, Tail(t))

\* C16: a stored message keeps its id, sender, recipients, subject, body,
\* timestamp, attachments, forwarded_from and message_uid until it is
\* deleted; only update_folder changes its folder and only delete_message
\* removes it.
C16_OnlyFolderChanges ==
    [][ IF call'.op = "delete_message"
        THEN IsSubseq(data'.messages, data.messages)
        ELSE /\ Len(data'.messages) >= Len(data.messages)
             /\ \A i \in 1..Len(data.messages) :
                    /\ [data'.messages[i] EXCEPT !.folder = data.messages[i].folder]
                       = data.messages[i]
                    /\ call'.op # "update_folder"
                       => data'.messages[i].folder = data.messages[i].folder ]_vars

\* A message fetched by sync_imap has been filed under Archive, next to a
\* message that kept its folder.
C16_Witness ==
    /\ call.op = "update_folder"
    /\ Len(data.messages) = 2
    /\ \E i, j \in 1..2 :
           /\ data.messages[i].folder = Str_Archive
           /\ Truthy(data.messages[i].message_uid)
           /\ data.messages[j].folder = Str_Sent

\* C17: for 0 <= i < len(contacts), update_contact(i, ...) replaces contact
\* i and no other, and delete_contact(i) removes contact i and moves the
\* later ones down by one; for any other index both leave the contacts as
\* they are and do not raise; add_contact appends at the end; none of the
\* three changes a message.
C17_ContactsByPosition ==
    [][ LET old == data.contacts
            new == data'.contacts
            i == call'.index
        IN  /\ call'.op \in {"add_contact", "update_contact", "delete_contact"}
               => (result'.kind = "none" /\ data'.messages = data.messages)
            /\ call'.op = "add_contact"
               => new = Append(old, [name |-> call'.name, email |-> call'.email])
            /\ call'.op = "update_contact"
               => IF 0 <= i /\ i < Len(old)
                  THEN /\ Len(new) = Len(old)
                       /\ new[i + 1] = [name |-> call'.name, email |-> call'.email]
                       /\ \A k \in 1..Len(old) : k # i + 1 => new[k] = old[k]
                  ELSE new = old
            /\ call'.op = "delete_contact"
               => IF 0 <= i /\ i < Len(old)
                  THEN /\ Len(new) = Len(old) - 1
                       /\ \A k \in 1..i : new[k] = old[k]
                       /\ \A k \in (i + 1)..Len(new) : new[k] = old[k + 1]
                  ELSE new = old ]_vars

\* delete_contact(0) has removed the first of two contacts of a store that
\* holds a message.
C17_Witness ==
    /\ call.op = "delete_contact"
    /\ call.index = 0
    /\ Len(data.contacts) = MaxContacts - 1
    /\ data.messages # <<>>

\* C18: in send_mail, a form without a sender or without a recipient leads
\* to neither send_smtp nor add_message; when send_smtp raises with an
\* account active, no message is added and the compose fields are not
\* cleared; a message is added only after send_smtp returned or when no
\* account is active, and then exactly one is, with folder "Sent".
C18_SentOnlyAfterSend ==
    [][ call'.op = "send_mail"
        => LET old == data.messages
               new == data'.messages
               form == call'.form
               incomplete ==
                   \/ IsBlank(form.from_var)
                   \/ \A k \in 1..Len(form.to_var) :
                          form.to_var[k] \in Whitespace \cup {","}
               sent == \/ result'.smtp = "returned"
                       \/ (~Truthy(call'.account) /\ result'.smtp = "not called")
           IN  /\ incomplete => (result'.smtp = "not called" /\ new = old)
               /\ (~incomplete /\ Truthy(call'.account) /\ result'.smtp # "returned")
                  => (new = old /\ ~result'.cleared)
               /\ new # old => (~incomplete /\ sent)
               /\ (~incomplete /\ sent)
                  => (/\ Len(new) = Len(old) + 1
                      /\ \A i \in 1..Len(old) : new[i] = old[i]
                      /\ new[Len(new)].folder = Str_Sent) ]_vars

\* send_smtp has returned for an active account and the message is stored
\* under Sent after a message the store held already.
C18_Witness ==
    /\ call.op = "send_mail"
    /\ Truthy(call.account)
    /\ result.smtp = "returned"
    /\ result.cleared
    /\ Len(data.messages) = 2
    /\ data.messages[2].folder = Str_Sent
    /\ data.messages[2].subject = NoSubject

====
